---- MODULE Spec2Model ----
(***************************************************************************)
(* Model of the motivation-watch Pomodoro countdown and of the simulation  *)
(* driver of the solar system view that hosts it.                          *)
(*                                                                         *)
(* Two PomodoroTimer components exist in the repository:                   *)
(*   "loop"    src/unnamed/part_003 (continuous work/break loop, keeps     *)
(*             next/current duration refs)                                 *)
(*   "oneshot" src/src/components/PomodoroTimer.tsx (stops at idle when    *)
(*             the break ends)                                             *)
(* The variable variant selects which one is mounted.                      *)
(*                                                                         *)
(* Time is counted in milliseconds.  timeRemaining is kept in milliseconds *)
(* (the code keeps seconds as a float: minutes * 60, minus delta / 1000).  *)
(* Every action is one JavaScript task: the handler or timer callback, the *)
(* render it causes and the effects React runs after that render.  Timer   *)
(* callbacks run in the order they become due; the animation interval runs *)
(* on time, the countdown interval may run late.                           *)
(*                                                                         *)
(* Spec follows the timer, its controls and the settings while no          *)
(* animation tick falls between the steps; SpecView follows the timer      *)
(* inside the view with the animation loop ticking.  SpecSettings follows  *)
(* the settings panel and the preference store from the mount of the view; *)
(* SpecControls follows the play, speed, zoom and selection controls of    *)
(* the view and the pinch gesture of the pinch-to-zoom view; SpecTeardown  *)
(* follows the view and its timer up to and after the unmount.  SpecField  *)
(* follows the generated asteroid and star fields through the renders of   *)
(* the view, SpecDistance the distance scaling of the orbits, SpecPrefs    *)
(* the settings panel with its toggles next to the 'Orbits' button of the  *)
(* view, and SpecWatch the stopwatch of src/moonwatch.jsx.                 *)
(*                                                                         *)
(* Two SettingsPanel components exist: "native" src/unnamed/part_006       *)
(* (text fields parsed on Save) and "web" src/unnamed/part_007 (fields     *)
(* clamped while typing).  The variable panel selects which one is used.   *)
(***************************************************************************)
EXTENDS Integers, Naturals, Sequences, FiniteSets, TLC

\* ---------------------------------------------------------------- bounds
MaxDur == 2          \* configured durations range over 1..MaxDur minutes
MaxTicks == 2        \* countdown ticks explored in one run
MaxViewTicks == 7    \* simulation ticks explored in one run of SpecView
MaxSince == 60000    \* largest idle wait (ms) accumulated against lastTickRef
MaxCtlTicks == 2     \* simulation ticks explored in one run of SpecControls
MaxDistance == 120   \* scaleDistance is followed over every integer up to it
NumAsteroids == 2    \* asteroids of the belt (200 in the code)
NumStars == 2        \* stars of the background (400 in the code)
MaxWatchTicks == 6   \* stopwatch ticks explored in one run of SpecWatch

\* ------------------------------------------------------ program constants
SecPerMin == 60      \* workDuration * 60
MsPerSec == 1000     \* (now - lastTickRef.current) / 1000
PomPeriod == 100     \* setInterval(..., 100) of the countdown
SimPeriod == 16      \* setInterval(..., 16) of the animation loop
TimeStep == 8        \* 0.008 per simulation tick, in 1/1000
InitSpeed == 10      \* useState(1) for speed, in tenths
InitZoom == 10       \* useState(1) for zoom, in tenths
InitScale == 1000    \* useSharedValue(1) for scale and savedScale, in 1/1000

Durations == 1..MaxDur
\* how late the countdown interval callback may run (ms after it is due)
Lates == {0, 59900}
\* real time that may pass between two tasks when no timer becomes due
Waits == {50, 30000}

Variants == {"loop", "oneshot"}

VARIABLES
  variant,        \* which PomodoroTimer component is mounted
  workDuration,   \* prop workDuration (settings.workDuration), minutes
  breakDuration,  \* prop breakDuration (settings.breakDuration), minutes
  sessionType,    \* useState<SessionType>
  timerState,     \* useState<TimerState>
  timeRemaining,  \* useState(workDuration * 60), in ms
  intervalRef,    \* TRUE when intervalRef.current holds a live interval
  pomAge,         \* ms since that interval was created or last fired
  sinceTick,      \* Date.now() - lastTickRef.current, ms
  nextWork,       \* nextWorkDurationRef.current
  nextBreak,      \* nextBreakDurationRef.current
  curWork,        \* currentWorkDurationRef.current
  curBreak,       \* currentBreakDurationRef.current
  completions,    \* number of onComplete() calls so far
  ticks,          \* number of countdown interval callbacks so far
  time,           \* simulation time, in 1/10000
  speed,          \* speed multiplier, in tenths
  isPaused,       \* simulation paused
  simTicks,       \* number of animation interval callbacks so far
  mounted,        \* the view (and the timer in it) is mounted
  simInterval,    \* TRUE when the animation interval is live
  zoom,           \* useState(1) zoom of the slider view, in tenths
  selectedPlanet, \* useState<Planet | null>(null): a planet name or "null"
  viewBox,        \* useMemo viewBox: <<xmin, ymin, width, height>>, in 1/1000
  request,        \* the value last asked of a slider, or the planet last
                  \* pressed (observer, not in the code)
  scale,          \* scale.value of the pinch view, in 1/1000
  savedScale,     \* savedScale.value of the pinch view, in 1/1000
  panel,          \* which SettingsPanel component is used
  store,          \* localStorage entry 'motivationWatchSettings'
  prefs,          \* the fields of settings other than the two durations
  localSettings,  \* useState<Settings>(settings) of the panel
  workDurationText,   \* useState text of the native panel, as characters
  breakDurationText,  \* useState text of the native panel, as characters
  settingsPanelVisible, \* useState(false) of the view
  loaded,         \* the load effect of the mount has run
  asteroids,      \* useMemo asteroid belt of the view: the generated asteroids
  stars,          \* useMemo star field of the view: the generated stars
  pomIntervals,   \* number of countdown intervals set and not yet cleared
  simIntervals,   \* number of animation intervals set and not yet cleared
  showOrbits,     \* useState(true) of the view ('Orbits' toggle button)
  distance,       \* the distance last given to scaleDistance
                  \* (observer, not in the code)
  orbitRadius,    \* what scaleDistance returned for it, in 1/1000
  stopwatchTime,  \* useState(0) of the Moonwatch stopwatch, ms
  isRunning,      \* useState(false) of the Moonwatch stopwatch
  lapTimes,       \* useState([]) of the Moonwatch stopwatch, newest first
  ranSince,       \* real ms the timer has been running since the last
                  \* countdown tick or start (observer, not in the code)
  pausedWait,     \* real time has passed while the timer was paused
                  \* (observer, not in the code)
  op              \* the operation that produced the current state

vars == <<variant, workDuration, breakDuration, sessionType, timerState,
          timeRemaining, intervalRef, pomAge, sinceTick, nextWork, nextBreak,
          curWork, curBreak, completions, ticks, time, speed, isPaused,
          simTicks, mounted, simInterval, zoom, selectedPlanet, viewBox,
          request, scale, savedScale, panel, store, prefs, localSettings,
          workDurationText,
          breakDurationText, settingsPanelVisible, loaded, asteroids, stars,
          pomIntervals, simIntervals, showOrbits, distance, orbitRadius,
          stopwatchTime, isRunning, lapTimes, ranSince, pausedWait, op>>

simVars == <<time, speed, isPaused, simTicks>>

\* the timer component's own state and observers
timerVars == <<variant, workDuration, breakDuration, sessionType, timerState,
               timeRemaining, intervalRef, pomAge, sinceTick, nextWork,
               nextBreak, curWork, curBreak, completions, ticks, ranSince,
               pausedWait>>

\* zoom and selection of the slider view, scale of the pinch view
ctlVars == <<zoom, selectedPlanet, viewBox, request, scale, savedScale>>

\* the settings panel and the preference store
panelVars == <<panel, store, prefs, localSettings, workDurationText,
               breakDurationText, settingsPanelVisible, loaded>>

\* the generated data of the view
memoVars == <<asteroids, stars>>

\* the live timers of the JavaScript runtime
countVars == <<pomIntervals, simIntervals>>

\* the Moonwatch stopwatch
watchVars == <<stopwatchTime, isRunning, lapTimes>>

\* the solar system view with its timer and its settings panel
viewVars == <<timerVars, simVars, mounted, simInterval, ctlVars, panelVars,
              memoVars, countVars, showOrbits>>

\* state that the timer, the panel and the zoom, speed and selection
\* controls leave alone: the 'Orbits' toggle of the view, the distance
\* scaling observers and the Moonwatch stopwatch
otherVars == <<showOrbits, distance, orbitRadius, watchVars>>

\* minutes -> ms of countdown (duration * 60 seconds)
FullTime(minutes) == minutes * SecPerMin * MsPerSec

TimerStates == {"idle", "running", "paused", "completed"}
SessionTypes == {"work", "break"}

Panels == {"native", "web"}

\* DEFAULT_SETTINGS of the panel p; the Settings of the web panel have no
\* backgroundMusic field.
DEFAULT_SETTINGS(p) ==
  IF p = "native"
    THEN [workDuration |-> 25, breakDuration |-> 5, showOrbits |-> TRUE,
          starDensity |-> 100, backgroundMusic |-> FALSE]
    ELSE [workDuration |-> 25, breakDuration |-> 5, showOrbits |-> TRUE,
          starDensity |-> 100]

\* The fields of the settings object s other than the two durations.
Prefs(s) ==
  IF "backgroundMusic" \in DOMAIN s
    THEN [showOrbits |-> s.showOrbits, starDensity |-> s.starDensity,
          backgroundMusic |-> s.backgroundMusic]
    ELSE [showOrbits |-> s.showOrbits, starDensity |-> s.starDensity]

\* The settings object with durations w and b and the other fields of p.
Settings(w, b, p) ==
  IF "backgroundMusic" \in DOMAIN p
    THEN [workDuration |-> w, breakDuration |-> b,
          showOrbits |-> p.showOrbits, starDensity |-> p.starDensity,
          backgroundMusic |-> p.backgroundMusic]
    ELSE [workDuration |-> w, breakDuration |-> b,
          showOrbits |-> p.showOrbits, starDensity |-> p.starDensity]

\* ------------------------------------------------------- text and numbers
\* A text is a sequence of characters.
DigitChars == <<"0", "1", "2", "3", "4", "5", "6", "7", "8", "9">>
IsDigit(c) == \E d \in 1..10 : DigitChars[d] = c
DigitValue(c) == (CHOOSE d \in 1..10 : DigitChars[d] = c) - 1

RECURSIVE TrimStart(_)
TrimStart(t) ==
  IF t # <<>> /\ Head(t) = " " THEN TrimStart(Tail(t)) ELSE t

\* text.trim() === ''
IsBlank(t) == TrimStart(t) = <<>>

RECURSIVE LeadingDigits(_)
LeadingDigits(t) ==
  IF t # <<>> /\ IsDigit(Head(t))
    THEN <<Head(t)>> \o LeadingDigits(Tail(t))
    ELSE <<>>

RECURSIVE DigitsValue(_)
DigitsValue(ds) ==
  IF ds = <<>> THEN 0
  ELSE 10 * DigitsValue(SubSeq(ds, 1, Len(ds) - 1)) + DigitValue(ds[Len(ds)])

\* parseInt(text): leading white space is skipped, a sign is read, then the
\* digits up to the first other character.  The result is <<n>>, or <<>>
\* for NaN (no digit was read).
ParseInt(t) ==
  LET u == TrimStart(t)
      signed == u # <<>> /\ Head(u) \in {"-", "+"}
      body == IF signed THEN Tail(u) ELSE u
      ds == LeadingDigits(body)
  IN IF ds = <<>> THEN <<>>
     ELSE IF signed /\ Head(u) = "-" THEN <<0 - DigitsValue(ds)>>
     ELSE <<DigitsValue(ds)>>

\* parsed || d: NaN and 0 are falsy
OrDefault(parsed, d) ==
  IF parsed = <<>> \/ parsed[1] = 0 THEN d ELSE parsed[1]

\* Math.max(lo, Math.min(hi, x))
ClampLow(lo, hi, x) == IF x < lo THEN lo ELSE x
Clamp(lo, hi, x) ==
  LET m == IF x < hi THEN x ELSE hi
  IN IF lo > m THEN lo ELSE m

RECURSIVE NatToString(_)
NatToString(n) ==
  IF n < 10 THEN <<DigitChars[n + 1]>>
  ELSE NatToString(n \div 10) \o <<DigitChars[(n % 10) + 1]>>

\* n.toString() of an integer
NumberToString(n) ==
  IF n < 0 THEN <<"-">> \o NatToString(0 - n) ELSE NatToString(n)

\* --------------------------------------------------- the preference store
\* localStorage.getItem returns null, a text JSON.parse rejects, or the
\* JSON text of a settings object.
Absent == [kind |-> "absent"]
Unparsable == [kind |-> "unparsable"]

\* localStorage.setItem(key, JSON.stringify(s))
Stringify(s) == [kind |-> "json", value |-> s]

\* durations found in a stored settings object that was not written by Save
StoredWork == {0, 10, 61}
StoredBreak == {0 - 1, 5}

StoreValues ==
  {Absent, Unparsable} \cup
  {Stringify(Settings(w, b, Prefs(DEFAULT_SETTINGS("native")))) :
     w \in StoredWork, b \in StoredBreak}

\* ------------------------------------------------------------ the view box
\* size = 500 / zoom, in 1/1000 (zoom is in tenths)
ViewSize(z) == (500 * 1000 * 10) \div z

\* `-${size} -${size} ${size * 2} ${size * 2}`
ViewBox(z) ==
  <<0 - ViewSize(z), 0 - ViewSize(z), ViewSize(z) * 2, ViewSize(z) * 2>>

\* ---------------------------------------------------------- scaleDistance
\* Natural numbers of any size, as sequences of limbs 0..Base-1 with the
\* least significant limb first and no leading zero limb (0 is <<>>).
Base == 1000

\* limb i of a (0 above its length)
Limb(a, i) == IF i <= Len(a) THEN a[i] ELSE 0

\* a without its leading zero limbs
Trim(a) ==
  LET used == {i \in 1..Len(a) : a[i] # 0}
  IN IF used = {} THEN <<>>
     ELSE SubSeq(a, 1, CHOOSE m \in used : \A i \in used : i <= m)

\* the limbs of an integer 0 <= n < 2^31
ToBig(n) ==
  Trim(<<n % Base, (n \div Base) % Base, (n \div (Base * Base)) % Base,
         n \div (Base * Base * Base)>>)

\* a + b: limb i receives a carry when a limb below it overflows and every
\* limb in between is full
AddBig(a, b) ==
  LET n == (IF Len(a) < Len(b) THEN Len(b) ELSE Len(a)) + 1
      s == SubSeq([i \in 1..n |-> Limb(a, i) + Limb(b, i)], 1, n)
      carry(i) == \E j \in 1..(i - 1) :
                    /\ s[j] >= Base
                    /\ \A k \in (j + 1)..(i - 1) : s[k] = Base - 1
  IN Trim([i \in 1..n |-> (s[i] + (IF carry(i) THEN 1 ELSE 0)) % Base])

\* the sum of a[i] * b[k + 1 - i] over i in lo..hi
RECURSIVE Column(_, _, _, _, _)
Column(a, b, k, lo, hi) ==
  IF lo > hi THEN 0
  ELSE IF lo = hi THEN a[lo] * b[k + 1 - lo]
  ELSE LET mid == (lo + hi) \div 2
       IN Column(a, b, k, lo, mid) + Column(a, b, k, mid + 1, hi)

\* a * b: the column sums of the long multiplication, each below Base^3,
\* split into their three limbs and added up
MulBig(a, b) ==
  IF a = <<>> \/ b = <<>> THEN <<>>
  ELSE LET n == Len(a) + Len(b) - 1
           c == SubSeq([k \in 1..n |->
                          Column(a, b, k,
                                 IF k + 1 - Len(b) < 1 THEN 1
                                                       ELSE k + 1 - Len(b),
                                 IF k < Len(a) THEN k ELSE Len(a))], 1, n)
           low == [k \in 1..n |-> c[k] % Base]
           mid == [k \in 1..(n + 1) |->
                     IF k = 1 THEN 0 ELSE (c[k - 1] \div Base) % Base]
           high == [k \in 1..(n + 2) |->
                      IF k <= 2 THEN 0 ELSE c[k - 2] \div (Base * Base)]
       IN AddBig(AddBig(low, mid), high)

RECURSIVE PowBig(_, _)
PowBig(a, k) ==
  IF k = 0 THEN <<1>>
  ELSE IF k % 2 = 0 THEN LET h == PowBig(a, k \div 2) IN MulBig(h, h)
  ELSE MulBig(a, PowBig(a, k - 1))

\* a <= b
LeqBig(a, b) ==
  IF Len(a) # Len(b) THEN Len(a) < Len(b)
  ELSE ~ \E i \in 1..Len(a) :
           /\ a[i] > b[i]
           /\ \A k \in (i + 1)..Len(a) : a[k] = b[k]

\* the largest y in lo..hi with y^20 <= target (lo^20 <= target)
RECURSIVE Root20(_, _, _)
Root20(lo, hi, target) ==
  IF lo = hi THEN lo
  ELSE LET mid == (lo + hi + 1) \div 2
       IN IF LeqBig(PowBig(ToBig(mid), 20), target)
            THEN Root20(mid, hi, target)
            ELSE Root20(lo, mid - 1, target)

\* Math.pow(d, 0.45) for an integer d >= 0, in 1/1000 and rounded down:
\* the largest y with (y / 1000)^20 <= d^9, found below its whole part + 1.
PowScale == 1000
Pow045(d) ==
  LET d9 == PowBig(ToBig(d), 9)
      whole == Root20(0, d, d9)
  IN Root20(PowScale * whole, PowScale * whole + (PowScale - 1),
            MulBig(d9, PowBig(ToBig(PowScale), 20)))

\* scaleDistance = d => 35 + Math.pow(d, 0.45) * 3.5, in 1/1000
scaleDistanceWhole(d) == 35000 + (Pow045(d) \div PowScale) * 3500
scaleDistance(d) == 35000 + (Pow045(d) * 35) \div 10

\* ------------------------------------------------- asteroid and star field
\* Math.random(): the draws of one session are a sequence fixed by the seed
\* of the generator; a draw is a number in [0, 1), here in 1/1000.
Seeds == {123, 456, 789}
DefaultSeed == 123

NextRandom(x) == (x * 421 + 167) % 1000

\* the k-th draw (k >= 1) of the session with the given seed
RECURSIVE Random(_, _)
Random(seed, k) ==
  IF k = 0 THEN seed ELSE NextRandom(Random(seed, k - 1))

\* 2 pi, in 1/100000000 rad
TwoPi == 628318530

\* Asteroid i (0-based) of the belt, generated with the draws 5i+1 .. 5i+5:
\* angle in 1/100000000 rad, distance, size and opacity in 1/1000, speed
\* in 1/10000.
Asteroid(seed, i) ==
  [angle |-> (i * TwoPi) \div NumAsteroids + Random(seed, 5 * i + 1) * 30000,
   distance |-> scaleDistance(400) + (Random(seed, 5 * i + 2) - 500) * 30,
   size |-> (Random(seed, 5 * i + 3) * 15) \div 10 + 500,
   speed |-> 1500 + Random(seed, 5 * i + 4),
   opacity |-> Random(seed, 5 * i + 5) \div 2 + 300]

\* [...Array(200)].map((_, i) => ({...})) of the asteroids memo
GenerateAsteroids(seed) == [k \in 1..NumAsteroids |-> Asteroid(seed, k - 1)]

\* Star j (0-based), generated after the asteroids with four draws: x and y
\* in 1/1000 percent, size and opacity in 1/1000.
Star(seed, j) ==
  LET first == 5 * NumAsteroids + 4 * j
  IN [x |-> Random(seed, first + 1) * 100,
      y |-> Random(seed, first + 2) * 100,
      size |-> (Random(seed, first + 3) * 12) \div 10 + 300,
      opacity |-> (Random(seed, first + 4) * 6) \div 10 + 200]

\* [...Array(400)].map(() => ({...})) of the stars memo
GenerateStars(seed) == [k \in 1..NumStars |-> Star(seed, k - 1)]

\* useMemo(..., []): the value of the memo after a render of the view, as
\* the set of values it can have (a generation draws from Math.random).
AsteroidsMemoEveryRender(old, depsChanged) ==
  {GenerateAsteroids(seed) : seed \in Seeds}
AsteroidsMemo(old, depsChanged) ==
  IF depsChanged THEN {GenerateAsteroids(seed) : seed \in Seeds} ELSE {old}

StarsMemo(old, depsChanged) ==
  IF depsChanged THEN {GenerateStars(seed) : seed \in Seeds} ELSE {old}

\* The memos of the view in a render after the first: their dependency
\* lists are empty.
ViewMemos ==
  /\ asteroids' \in AsteroidsMemo(asteroids, FALSE)
  /\ stars' \in StarsMemo(stars, FALSE)

\* ----------------------------------------------------------- live intervals
\* clearInterval of the interval a ref or an effect's closure holds, if it
\* holds one: the number of live intervals afterwards.
ClearedNever(n, live) == n
Cleared(n, live) == IF live THEN n - 1 ELSE n

\* The number of live countdown intervals after the tick effect ran again:
\* its cleanup clears intervalRef.current, its body sets a new interval
\* when timerState is running.
TickEffectCount(n, live, ts) ==
  Cleared(n, live) + (IF ts = "running" THEN 1 ELSE 0)

\* The number of live animation intervals after the animation effect ran
\* again: its cleanup clears the interval of the previous run, its body
\* sets a new one unless the simulation is paused.
AnimationEffectCount(n, live, paused) ==
  Cleared(n, live) + (IF paused THEN 0 ELSE 1)

\* ------------------------------------------------------------ initial state
\* The timer after its first render with the props workDuration and
\* breakDuration, and the animation state of the view.
TimerInit ==
  /\ sessionType = "work"
  /\ timerState = "idle"
  /\ timeRemaining = FullTime(workDuration)
  /\ intervalRef = FALSE
  /\ pomIntervals = 0
  /\ pomAge = 0
  /\ sinceTick = 0
  /\ nextWork = workDuration
  /\ nextBreak = breakDuration
  /\ curWork = workDuration
  /\ curBreak = breakDuration
  /\ completions = 0
  /\ ticks = 0
  /\ time = 0
  /\ speed = InitSpeed
  /\ isPaused = FALSE
  /\ simTicks = 0
  /\ ranSince = 0
  /\ pausedWait = FALSE
  /\ op = "init"

\* The controls of the view after the mount: the animation effect has
\* created its interval.
ControlsInit ==
  /\ mounted = TRUE
  /\ simInterval = TRUE
  /\ simIntervals = 1
  /\ showOrbits = TRUE
  /\ zoom = InitZoom
  /\ selectedPlanet = "null"
  /\ viewBox = ViewBox(InitZoom)
  /\ request = "null"
  /\ scale = InitScale
  /\ savedScale = InitScale

\* The settings panel after its first render: the view's settings are
\* DEFAULT_SETTINGS then, whatever the store holds.
PanelInit ==
  /\ prefs = Prefs(DEFAULT_SETTINGS(panel))
  /\ localSettings = DEFAULT_SETTINGS(panel)
  /\ workDurationText = NumberToString(DEFAULT_SETTINGS(panel).workDuration)
  /\ breakDurationText = NumberToString(DEFAULT_SETTINGS(panel).breakDuration)
  /\ settingsPanelVisible = FALSE

\* The asteroid and star field the first render generated.
FieldInit(seed) ==
  /\ asteroids = GenerateAsteroids(seed)
  /\ stars = GenerateStars(seed)

\* scaleDistance was given d.
ScaleInit(d) ==
  /\ distance = d
  /\ orbitRadius = scaleDistance(d)

\* The Moonwatch stopwatch after its first render.
WatchInit ==
  /\ stopwatchTime = 0
  /\ isRunning = FALSE
  /\ lapTimes = <<>>

\* What the specifications that follow neither the generated fields, nor
\* the distance scaling, nor the stopwatch start from.
RestInit ==
  /\ FieldInit(DefaultSeed)
  /\ ScaleInit(0)
  /\ WatchInit

\* The timer configured with durations saved earlier (and loaded at the
\* mount).
Init ==
  /\ variant \in Variants
  /\ workDuration \in Durations
  /\ breakDuration \in Durations
  /\ TimerInit
  /\ ControlsInit
  /\ panel = "native"
  /\ PanelInit
  /\ store = Stringify(Settings(workDuration, breakDuration, prefs))
  /\ loaded = TRUE
  /\ RestInit

\* The view right after the mount, before the load effect has run, with
\* any content of the preference store.
InitMount ==
  /\ variant \in Variants
  /\ panel \in Panels
  /\ workDuration = DEFAULT_SETTINGS(panel).workDuration
  /\ breakDuration = DEFAULT_SETTINGS(panel).breakDuration
  /\ TimerInit
  /\ ControlsInit
  /\ PanelInit
  /\ store \in StoreValues
  /\ loaded = FALSE
  /\ RestInit

\* The view after the mount with an empty preference store: the load effect
\* has run and has changed nothing.
InitDefault ==
  /\ variant \in Variants
  /\ panel = "native"
  /\ workDuration = DEFAULT_SETTINGS(panel).workDuration
  /\ breakDuration = DEFAULT_SETTINGS(panel).breakDuration
  /\ TimerInit
  /\ ControlsInit
  /\ PanelInit
  /\ store = Absent
  /\ loaded = TRUE
  /\ RestInit

\* The tick effect: with timerState running it (re)creates the interval,
\* otherwise it clears it.  Result: is an interval live afterwards.
TickEffect(ts) == ts = "running"

\* The idle duration effect: the value of timeRemaining after it ran.
IdleEffectNotRunning(ts, st, w, b, tr) ==
  IF ts # "running" THEN FullTime(IF st = "work" THEN w ELSE b) ELSE tr
IdleEffectOff(ts, st, w, b, tr) == tr
IdleEffect(ts, st, w, b, tr) ==
  IF ts = "idle" THEN FullTime(IF st = "work" THEN w ELSE b) ELSE tr

\* The durations the idle duration effect reads: the loop component reads
\* the next-duration refs, the one-shot component reads the props.
IdleWork == IF variant = "loop" THEN nextWork ELSE workDuration
IdleBreak == IF variant = "loop" THEN nextBreak ELSE breakDuration

\* Date.now() - lastTickRef.current after startTimer and the effect that
\* follows a change of timerState to running: both store Date.now().
SinceTickKept == sinceTick
SinceTickAfterStart == 0

\* startTimer, then the render and its effects
StartTimer ==
  /\ mounted
  /\ timerState # "running"
  /\ timerState' = "running"
  /\ IF variant = "loop" /\ timerState = "idle"
       THEN curWork' = nextWork /\ curBreak' = nextBreak
       ELSE UNCHANGED <<curWork, curBreak>>
  /\ sinceTick' = SinceTickAfterStart
  /\ intervalRef' = TickEffect("running")
  /\ pomAge' = 0
  /\ op' = "start"
  /\ UNCHANGED otherVars
  /\ pomIntervals' = TickEffectCount(pomIntervals, intervalRef, "running")
  /\ UNCHANGED <<simIntervals, memoVars>>
  /\ ranSince' = 0
  /\ UNCHANGED pausedWait
  /\ UNCHANGED <<variant, workDuration, breakDuration, sessionType,
                 timeRemaining, nextWork, nextBreak, completions, ticks>>
  /\ UNCHANGED simVars
  /\ UNCHANGED <<mounted, simInterval, ctlVars, panelVars>>

\* pauseTimer, then the render and its effects
PauseTimer ==
  /\ mounted
  /\ timerState = "running"
  /\ timerState' = "paused"
  /\ intervalRef' = TickEffect("paused")
  /\ pomAge' = 0
  /\ op' = "pause"
  /\ UNCHANGED otherVars
  /\ pomIntervals' = TickEffectCount(pomIntervals, intervalRef, "paused")
  /\ UNCHANGED <<simIntervals, memoVars>>
  /\ ranSince' = 0
  /\ UNCHANGED pausedWait
  /\ UNCHANGED <<variant, workDuration, breakDuration, sessionType,
                 timeRemaining, sinceTick, nextWork, nextBreak, curWork,
                 curBreak, completions, ticks>>
  /\ UNCHANGED simVars
  /\ UNCHANGED <<mounted, simInterval, ctlVars, panelVars>>

\* The work duration resetTimer applies: the loop component reads
\* nextWorkDurationRef, the one-shot component reads the prop.
ResetDurationStale == IF variant = "loop" THEN curWork ELSE workDuration
ResetDuration == IF variant = "loop" THEN nextWork ELSE workDuration

\* The session type resetTimer sets: setSessionType('work')
ResetSessionKept == sessionType
ResetSession == "work"

\* resetTimer, then the render and its effects
ResetTimer ==
  /\ mounted
  /\ timerState' = "idle"
  /\ sessionType' = ResetSession
  /\ curWork' = IF variant = "loop" THEN nextWork ELSE curWork
  /\ LET set == FullTime(ResetDuration)
         rerun == timerState # "idle" \/ sessionType # ResetSession
     IN timeRemaining' =
          IF rerun
            THEN IdleEffect("idle", ResetSession, IdleWork, IdleBreak, set)
            ELSE set
  /\ intervalRef' = FALSE
  /\ pomAge' = 0
  /\ op' = "reset"
  /\ UNCHANGED otherVars
  /\ pomIntervals' = Cleared(pomIntervals, intervalRef)
  /\ UNCHANGED <<simIntervals, memoVars>>
  /\ ranSince' = 0
  /\ UNCHANGED pausedWait
  /\ UNCHANGED <<variant, workDuration, breakDuration, sinceTick, nextWork,
                 nextBreak, curBreak, completions, ticks>>
  /\ UNCHANGED simVars
  /\ UNCHANGED <<mounted, simInterval, ctlVars, panelVars>>

\* Dependencies of the tick effect: [timerState, onComplete, sessionType]
\* (the one-shot component adds workDuration and breakDuration).  The view
\* passes an inline arrow function as onComplete, so every render of the
\* view changes that dependency.
TickEffectReruns(viewRendered, tsChanged, stChanged, durChanged) ==
  \/ viewRendered
  \/ tsChanged
  \/ stChanged
  \/ (variant = "oneshot" /\ durChanged)

\* The duration the updater returns at the end of a work session.
BreakStartStale == IF variant = "loop" THEN curBreak ELSE breakDuration
BreakStart == IF variant = "loop" THEN nextBreak ELSE breakDuration

\* The duration the updater returns at the end of a break session.
WorkStart == IF variant = "loop" THEN nextWork ELSE workDuration

\* timerState after the break session ended: the loop component keeps
\* running, the one-shot component calls setTimerState('idle').
AfterBreakStateIdle == "idle"
AfterBreakState == IF variant = "loop" THEN "running" ELSE "idle"

\* Is the countdown session over with newTime ms left?
SessionDoneEq(newTime) == newTime = 0
SessionDone(newTime) == newTime <= 0

\* How often the updater calls onComplete when a session of type st ends.
OnCompleteCallsWorkOnly(st) == IF st = "work" THEN 1 ELSE 0
OnCompleteCalls(st) == 1

\* The countdown interval callback, run late ms after it became due, with
\* the setTimeRemaining updater, the render and its effects.
PomTick(late) ==
  /\ intervalRef
  /\ ticks < MaxTicks
  \* timers run in the order they become due
  /\ isPaused \/ PomPeriod - pomAge <= SimPeriod
  /\ LET elapsed == (PomPeriod - pomAge) + late
         delta == sinceTick + elapsed
         newTime == timeRemaining - delta
     IN IF SessionDone(newTime)
          THEN /\ completions' = completions + OnCompleteCalls(sessionType)
               /\ IF sessionType = "work"
                    THEN /\ sessionType' = "break"
                         /\ curBreak' = IF variant = "loop" THEN nextBreak
                                                            ELSE curBreak
                         /\ timeRemaining' = FullTime(BreakStart)
                         /\ timerState' = timerState
                         /\ UNCHANGED curWork
                    ELSE /\ sessionType' = "work"
                         /\ curWork' = IF variant = "loop" THEN nextWork
                                                           ELSE curWork
                         /\ timerState' = AfterBreakState
                         /\ timeRemaining' =
                              IdleEffect(AfterBreakState, "work", IdleWork,
                                         IdleBreak, FullTime(WorkStart))
                         /\ UNCHANGED curBreak
          ELSE /\ timeRemaining' = newTime
               /\ UNCHANGED <<sessionType, timerState, curWork, curBreak,
                              completions>>
  /\ intervalRef' = TickEffect(timerState')
  /\ pomAge' = 0
  /\ sinceTick' = 0
  /\ ticks' = ticks + 1
  /\ op' = "tick"
  /\ UNCHANGED otherVars
  /\ pomIntervals' =
       IF TickEffectReruns(FALSE, timerState' # timerState,
                           sessionType' # sessionType, FALSE)
         THEN TickEffectCount(pomIntervals, intervalRef, timerState')
         ELSE pomIntervals
  /\ UNCHANGED <<simIntervals, memoVars>>
  /\ ranSince' = 0
  /\ UNCHANGED pausedWait
  /\ UNCHANGED <<variant, workDuration, breakDuration, nextWork, nextBreak>>
  /\ UNCHANGED simVars
  /\ UNCHANGED <<mounted, simInterval, ctlVars, panelVars>>

\* The age of the countdown interval after a task that took ms of real
\* time and may have re-run the tick effect.
AgeAfter(rerun, ms) ==
  IF timerState = "running" /\ ~rerun THEN pomAge + ms ELSE 0

\* The animation interval callback: setTime(t => t + 0.008 * speed), then
\* the render of the view, which re-renders the timer with a new onComplete.
SimTick(limit) ==
  /\ simInterval
  /\ simTicks < limit
  /\ intervalRef => SimPeriod <= PomPeriod - pomAge
  /\ time' = time + TimeStep * speed
  /\ simTicks' = simTicks + 1
  /\ sinceTick' = sinceTick + SimPeriod
  /\ pomAge' = AgeAfter(TickEffectReruns(TRUE, FALSE, FALSE, FALSE), SimPeriod)
  /\ intervalRef' = TickEffect(timerState)
  /\ op' = "simTick"
  /\ UNCHANGED otherVars
  /\ pomIntervals' = TickEffectCount(pomIntervals, intervalRef, timerState)
  /\ ViewMemos
  /\ UNCHANGED simIntervals
  /\ ranSince' = IF timerState = "running" THEN ranSince + SimPeriod ELSE 0
  /\ pausedWait' = (pausedWait \/ timerState = "paused")
  /\ UNCHANGED <<variant, workDuration, breakDuration, sessionType,
                 timerState, timeRemaining, nextWork, nextBreak, curWork,
                 curBreak, completions, ticks, speed, isPaused>>
  /\ UNCHANGED <<mounted, simInterval, ctlVars, panelVars>>

\* The animation effect, run after a render in which isPaused or speed
\* changed: the old interval is cleared by the cleanup, a new one is
\* created unless the simulation is paused.  Result: is an interval live.
AnimationEffectAlways(paused) == TRUE
AnimationEffect(paused) == ~paused

\* The play/pause button of the view: setIsPaused(!isPaused)
TogglePause ==
  /\ mounted
  /\ isPaused' = ~isPaused
  /\ simInterval' = AnimationEffect(isPaused')
  /\ pomAge' = AgeAfter(TickEffectReruns(TRUE, FALSE, FALSE, FALSE), 0)
  /\ intervalRef' = TickEffect(timerState)
  /\ op' = "togglePause"
  /\ UNCHANGED otherVars
  /\ pomIntervals' = TickEffectCount(pomIntervals, intervalRef, timerState)
  /\ simIntervals' = AnimationEffectCount(simIntervals, simInterval, isPaused')
  /\ ViewMemos
  /\ UNCHANGED <<ranSince, pausedWait>>
  /\ UNCHANGED <<variant, workDuration, breakDuration, sessionType,
                 timerState, timeRemaining, sinceTick, nextWork, nextBreak,
                 curWork, curBreak, completions, ticks, time, speed, simTicks>>
  /\ UNCHANGED <<mounted, ctlVars, panelVars>>

\* localStorage.setItem('motivationWatchSettings',
\* JSON.stringify(finalSettings)): what handleSave leaves in the store
PersistedLocal(finalSettings) == Stringify(localSettings)
Persisted(finalSettings) == Stringify(finalSettings)

\* setSettings(s): the view stores the settings object s and renders the
\* timer with the new duration props and the panel with the new settings;
\* the effects of the timer and of the web panel follow.
SetSettings(s) ==
  /\ workDuration' = s.workDuration
  /\ breakDuration' = s.breakDuration
  /\ prefs' = Prefs(s)
  /\ nextWork' = IF variant = "loop" THEN s.workDuration ELSE nextWork
  /\ nextBreak' = IF variant = "loop" THEN s.breakDuration ELSE nextBreak
  /\ LET durChanged == s.workDuration # workDuration
                         \/ s.breakDuration # breakDuration
     IN /\ pomAge' =
             AgeAfter(TickEffectReruns(TRUE, FALSE, FALSE, durChanged), 0)
        /\ timeRemaining' =
             IF durChanged
               THEN IdleEffect(timerState, sessionType, s.workDuration,
                               s.breakDuration, timeRemaining)
               ELSE timeRemaining
  /\ intervalRef' = TickEffect(timerState)
  /\ pomIntervals' = TickEffectCount(pomIntervals, intervalRef, timerState)
  /\ ViewMemos
  /\ localSettings' = IF panel = "web" THEN s ELSE localSettings
  /\ UNCHANGED <<ranSince, pausedWait>>
  /\ UNCHANGED <<variant, sessionType, timerState, sinceTick, curWork,
                 curBreak, completions, ticks>>
  /\ UNCHANGED simVars
  /\ UNCHANGED <<simInterval, simIntervals, ctlVars, panel>>

\* Save of the panel with final durations w and b:
\* onSettingsChange(finalSettings), then localStorage.setItem.  The fields
\* of the panel are not followed here.
SaveSettings(w, b) ==
  /\ mounted
  /\ LET finalSettings == Settings(w, b, prefs)
     IN /\ SetSettings(finalSettings)
        /\ store' = Persisted(finalSettings)
  /\ op' = "save"
  /\ UNCHANGED otherVars
  /\ UNCHANGED <<mounted, workDurationText, breakDurationText,
                 settingsPanelVisible, loaded>>

\* Real time passes and no timer callback becomes due: the animation
\* interval is off, and a live countdown interval is younger than its period
\* afterwards.
Wait(d) ==
  /\ ~simInterval
  /\ IF intervalRef
       THEN pomAge + d < PomPeriod /\ sinceTick + d < PomPeriod
       ELSE d >= PomPeriod /\ sinceTick + d <= MaxSince
  /\ sinceTick' = sinceTick + d
  /\ pomAge' = IF intervalRef THEN pomAge + d ELSE 0
  /\ op' = "wait"
  /\ UNCHANGED otherVars
  /\ UNCHANGED <<memoVars, countVars>>
  /\ ranSince' = IF timerState = "running" THEN ranSince + d ELSE 0
  /\ pausedWait' = (pausedWait \/ timerState = "paused")
  /\ UNCHANGED <<variant, workDuration, breakDuration, sessionType,
                 timerState, timeRemaining, intervalRef, nextWork, nextBreak,
                 curWork, curBreak, completions, ticks>>
  /\ UNCHANGED simVars
  /\ UNCHANGED <<mounted, simInterval, ctlVars, panelVars>>

\* The timer with its controls and the settings, followed while no
\* animation tick falls between its steps (the simulation is paused, or
\* the steps follow each other within one animation period).
Next ==
  \/ StartTimer
  \/ PauseTimer
  \/ ResetTimer
  \/ \E late \in Lates : PomTick(late)
  \/ TogglePause
  \/ \E w \in Durations, b \in Durations : SaveSettings(w, b)
  \/ \E d \in Waits : Wait(d)

Spec == Init /\ [][Next]_vars

\* The timer inside the running view: the settings are left alone and the
\* animation loop is followed for more than one countdown period.
NextView ==
  \/ StartTimer
  \/ PauseTimer
  \/ ResetTimer
  \/ \E late \in Lates : PomTick(late)
  \/ SimTick(MaxViewTicks)
  \/ TogglePause

SpecView == Init /\ [][NextView]_vars

\* ------------------------------------------------------ the settings panel
\* texts a duration field can hold (maxLength = 2)
Texts == {<<>>, <<" ">>, <<"0">>, <<"7">>, <<"6", "1">>, <<"-", "5">>,
          <<"a", "b">>, <<"7", "x">>}

\* The timer after a render of the view that changed none of its props but
\* onComplete.
ViewRendered ==
  /\ pomAge' = AgeAfter(TickEffectReruns(TRUE, FALSE, FALSE, FALSE), 0)
  /\ intervalRef' = TickEffect(timerState)
  /\ pomIntervals' = TickEffectCount(pomIntervals, intervalRef, timerState)
  /\ ViewMemos
  /\ UNCHANGED <<variant, workDuration, breakDuration, sessionType,
                 timerState, timeRemaining, sinceTick, nextWork, nextBreak,
                 curWork, curBreak, completions, ticks, ranSince, pausedWait>>

\* Does the load effect survive the store content st?  JSON.parse throws
\* on a text it rejects; the effect catches and logs the error.
ParseCaughtNever(st) == st.kind # "unparsable"
ParseCaught(st) == TRUE

\* Does the load effect find settings to apply?  (a stored text that
\* JSON.parse accepts)
Loadable(st) == st.kind = "json"

\* The load effect of the mount: localStorage.getItem, JSON.parse and
\* setSettings of whatever was parsed.
LoadSettings ==
  /\ mounted
  /\ ~loaded
  /\ loaded' = TRUE
  /\ mounted' = ParseCaught(store)
  /\ IF Loadable(store)
       THEN SetSettings(store.value)
       ELSE /\ UNCHANGED timerVars
            /\ UNCHANGED <<prefs, localSettings, simInterval, ctlVars, panel>>
            /\ UNCHANGED simVars
            /\ UNCHANGED <<memoVars, countVars>>
  /\ op' = "load"
  /\ UNCHANGED otherVars
  /\ UNCHANGED <<store, workDurationText, breakDurationText,
                 settingsPanelVisible>>

\* The settings icon: setSettingsPanelVisible(true)
OpenSettings ==
  /\ mounted
  /\ loaded
  /\ ~settingsPanelVisible
  /\ settingsPanelVisible' = TRUE
  /\ ViewRendered
  /\ op' = "open"
  /\ UNCHANGED otherVars
  /\ UNCHANGED simIntervals
  /\ UNCHANGED simVars
  /\ UNCHANGED <<mounted, simInterval, ctlVars, panel, store, prefs,
                 localSettings, workDurationText, breakDurationText, loaded>>

\* onClose of the panel (close button, backdrop): setSettingsPanelVisible(false)
CloseSettings ==
  /\ mounted
  /\ settingsPanelVisible
  /\ settingsPanelVisible' = FALSE
  /\ ViewRendered
  /\ op' = "close"
  /\ UNCHANGED otherVars
  /\ UNCHANGED simIntervals
  /\ UNCHANGED simVars
  /\ UNCHANGED <<mounted, simInterval, ctlVars, panel, store, prefs,
                 localSettings, workDurationText, breakDurationText, loaded>>

\* The duration a field of the web panel stores for the typed text:
\* parseInt(text) || 1, clamped to 1..hi.
TypedDuration(text, hi) == Clamp(1, hi, OrDefault(ParseInt(text), 1))

\* onChangeText of the work duration field: the native panel keeps the
\* text, the web panel parses and clamps it into localSettings.
ChangeWorkText(text) ==
  /\ mounted
  /\ settingsPanelVisible
  /\ IF panel = "native"
       THEN /\ workDurationText' = text
            /\ UNCHANGED localSettings
       ELSE /\ localSettings' =
                 [localSettings EXCEPT
                    !.workDuration = TypedDuration(text, 60)]
            /\ UNCHANGED workDurationText
  /\ op' = "type"
  /\ UNCHANGED otherVars
  /\ UNCHANGED <<memoVars, countVars>>
  /\ UNCHANGED timerVars
  /\ UNCHANGED simVars
  /\ UNCHANGED <<mounted, simInterval, ctlVars, panel, store, prefs,
                 breakDurationText, settingsPanelVisible, loaded>>

\* onChangeText of the break duration field
ChangeBreakText(text) ==
  /\ mounted
  /\ settingsPanelVisible
  /\ IF panel = "native"
       THEN /\ breakDurationText' = text
            /\ UNCHANGED localSettings
       ELSE /\ localSettings' =
                 [localSettings EXCEPT
                    !.breakDuration = TypedDuration(text, 30)]
            /\ UNCHANGED breakDurationText
  /\ op' = "type"
  /\ UNCHANGED otherVars
  /\ UNCHANGED <<memoVars, countVars>>
  /\ UNCHANGED timerVars
  /\ UNCHANGED simVars
  /\ UNCHANGED <<mounted, simInterval, ctlVars, panel, store, prefs,
                 workDurationText, settingsPanelVisible, loaded>>

\* handleReset ('Reset to Default'): only the panel's own state changes
HandleReset ==
  /\ mounted
  /\ settingsPanelVisible
  /\ localSettings' = DEFAULT_SETTINGS(panel)
  /\ IF panel = "native"
       THEN /\ workDurationText' =
                 NumberToString(DEFAULT_SETTINGS(panel).workDuration)
            /\ breakDurationText' =
                 NumberToString(DEFAULT_SETTINGS(panel).breakDuration)
       ELSE UNCHANGED <<workDurationText, breakDurationText>>
  /\ op' = "panelReset"
  /\ UNCHANGED otherVars
  /\ UNCHANGED <<memoVars, countVars>>
  /\ UNCHANGED timerVars
  /\ UNCHANGED simVars
  /\ UNCHANGED <<mounted, simInterval, ctlVars, panel, store, prefs,
                 settingsPanelVisible, loaded>>

\* The 'Show Orbital Paths' toggle of the panel:
\* setLocalSettings({...localSettings, showOrbits: !localSettings.showOrbits})
ToggleShowOrbits ==
  /\ mounted
  /\ settingsPanelVisible
  /\ localSettings' =
       [localSettings EXCEPT !.showOrbits = ~localSettings.showOrbits]
  /\ op' = "toggleShowOrbits"
  /\ UNCHANGED otherVars
  /\ UNCHANGED <<memoVars, countVars>>
  /\ UNCHANGED timerVars
  /\ UNCHANGED simVars
  /\ UNCHANGED <<mounted, simInterval, ctlVars, panel, store, prefs,
                 workDurationText, breakDurationText, settingsPanelVisible,
                 loaded>>

\* The 'Background Music' toggle, which only the native panel has
ToggleBackgroundMusic ==
  /\ mounted
  /\ settingsPanelVisible
  /\ panel = "native"
  /\ localSettings' =
       [localSettings EXCEPT
          !.backgroundMusic = ~localSettings.backgroundMusic]
  /\ op' = "toggleBackgroundMusic"
  /\ UNCHANGED otherVars
  /\ UNCHANGED <<memoVars, countVars>>
  /\ UNCHANGED timerVars
  /\ UNCHANGED simVars
  /\ UNCHANGED <<mounted, simInterval, ctlVars, panel, store, prefs,
                 workDurationText, breakDurationText, settingsPanelVisible,
                 loaded>>

\* The 'Orbits' toggle button of the view: setShowOrbits(!showOrbits).
\* The open panel covers the view.
ToggleOrbits ==
  /\ mounted
  /\ ~settingsPanelVisible
  /\ showOrbits' = ~showOrbits
  /\ ViewRendered
  /\ op' = "toggleOrbits"
  /\ UNCHANGED <<distance, orbitRadius, watchVars>>
  /\ UNCHANGED simVars
  /\ UNCHANGED <<mounted, simInterval, simIntervals, ctlVars, panelVars>>

\* {showOrbits && PLANETS.map(...)}: are the orbit paths drawn
OrbitsDrawn == showOrbits

\* isSaveDisabled of the native panel; the web panel never disables Save
IsSaveDisabled ==
  panel = "native" /\ (IsBlank(workDurationText) \/ IsBlank(breakDurationText))

\* The settings object handleSave passes on and stores.
FinalSettings ==
  IF panel = "native"
    THEN [localSettings EXCEPT
            !.workDuration =
               Clamp(1, 60, OrDefault(ParseInt(workDurationText), 1)),
            !.breakDuration =
               Clamp(1, 30, OrDefault(ParseInt(breakDurationText), 1))]
    ELSE localSettings

\* handleSave: onSettingsChange(final), localStorage.setItem, onClose()
HandleSave ==
  /\ mounted
  /\ settingsPanelVisible
  /\ ~IsSaveDisabled
  /\ LET finalSettings == FinalSettings
     IN /\ SetSettings(finalSettings)
        /\ store' = Persisted(finalSettings)
  /\ settingsPanelVisible' = FALSE
  /\ op' = "save"
  /\ UNCHANGED otherVars
  /\ UNCHANGED <<mounted, workDurationText, breakDurationText, loaded>>

\* The text a duration field shows: the native panel shows its text state,
\* the web panel shows localSettings.<field>.toString().
WorkField ==
  IF panel = "native" THEN workDurationText
                      ELSE NumberToString(localSettings.workDuration)
BreakField ==
  IF panel = "native" THEN breakDurationText
                      ELSE NumberToString(localSettings.breakDuration)

\* enabled={settings.backgroundMusic} of BackgroundMusic: a missing field
\* reads undefined and the music stays off.
MusicEnabled(p) == "backgroundMusic" \in DOMAIN p /\ p.backgroundMusic

\* The settings panel and the preference store, from the mount on; the
\* timer stays idle and the animation is not followed.
NextSettings ==
  \/ LoadSettings
  \/ OpenSettings
  \/ CloseSettings
  \/ \E text \in Texts : ChangeWorkText(text)
  \/ \E text \in Texts : ChangeBreakText(text)
  \/ HandleReset
  \/ HandleSave

SpecSettings == InitMount /\ [][NextSettings]_vars

\* texts typed into a duration field while the toggles are followed
PrefTexts == {<<"7">>, <<"6", "1">>}

\* The settings panel with its toggles, the 'Orbits' button of the view
\* and the preference store, from the mount on.
NextPrefs ==
  \/ LoadSettings
  \/ OpenSettings
  \/ CloseSettings
  \/ \E text \in PrefTexts : ChangeWorkText(text)
  \/ \E text \in PrefTexts : ChangeBreakText(text)
  \/ HandleReset
  \/ HandleSave
  \/ ToggleShowOrbits
  \/ ToggleBackgroundMusic
  \/ ToggleOrbits

SpecPrefs == InitMount /\ [][NextPrefs]_vars

\* ------------------------------------------------ the controls of the view
PLANETS == {"Mercury", "Venus", "Earth", "Mars", "Jupiter", "Saturn",
            "Uranus", "Neptune"}

\* positions asked of the speed slider, in tenths (0.1 .. 10 is its range)
SpeedRequests == {0 - 50, 5, 9990}
\* positions asked of the zoom slider, in tenths (0.3 .. 3 is its range)
ZoomRequests == {0, 3, 30, 31}
\* e.scale of a pinch update, in tenths
PinchScales == {1, 5, 10, 20, 100}
\* real time between two tasks while the animation interval is off
PausedWaits == {30000}

\* The value a slider with minimumValue lo and maximumValue hi reports for
\* a requested position.
SliderValueRaw(lo, hi, req) == req
SliderValue(lo, hi, req) == Clamp(lo, hi, req)

\* onValueChange={setSpeed} of the speed slider; the animation effect
\* depends on speed and re-creates its interval when speed changed.
SetSpeed(req) ==
  /\ mounted
  /\ request' = req
  /\ speed' = SliderValue(1, 100, req)
  /\ simInterval' = IF speed' # speed THEN AnimationEffect(isPaused)
                                       ELSE simInterval
  /\ ViewRendered
  /\ op' = "setSpeed"
  /\ UNCHANGED otherVars
  /\ simIntervals' = IF speed' # speed
                      THEN AnimationEffectCount(simIntervals, simInterval,
                                                isPaused)
                      ELSE simIntervals
  /\ UNCHANGED <<time, isPaused, simTicks, mounted, zoom, selectedPlanet,
                 viewBox, scale, savedScale>>
  /\ UNCHANGED panelVars

\* useMemo(..., [zoom]): the view box is computed again in a render in
\* which zoom changed.
ViewBoxMemoStale(old, z, zoomChanged) == old
ViewBoxMemo(old, z, zoomChanged) == IF zoomChanged THEN ViewBox(z) ELSE old

\* onValueChange={setZoom} of the zoom slider
SetZoom(req) ==
  /\ mounted
  /\ request' = req
  /\ zoom' = SliderValue(3, 30, req)
  /\ viewBox' = ViewBoxMemo(viewBox, zoom', zoom' # zoom)
  /\ ViewRendered
  /\ op' = "setZoom"
  /\ UNCHANGED otherVars
  /\ UNCHANGED simIntervals
  /\ UNCHANGED simVars
  /\ UNCHANGED <<mounted, simInterval, selectedPlanet, scale, savedScale>>
  /\ UNCHANGED panelVars

\* setSelectedPlanet(isSelected ? null : planet)
ToggledKeep(selected, planet) == planet
Toggled(selected, planet) == IF selected = planet THEN "null" ELSE planet

\* onPress of the orbiting planet
PressPlanet(planet) ==
  /\ mounted
  /\ request' = planet
  /\ selectedPlanet' = Toggled(selectedPlanet, planet)
  /\ ViewRendered
  /\ op' = "pressPlanet"
  /\ UNCHANGED otherVars
  /\ UNCHANGED simIntervals
  /\ UNCHANGED simVars
  /\ UNCHANGED <<mounted, simInterval, zoom, viewBox, scale, savedScale>>
  /\ UNCHANGED panelVars

\* onPress of the planet's button in the quick select bar
QuickSelect(planet) ==
  /\ mounted
  /\ request' = planet
  /\ selectedPlanet' = Toggled(selectedPlanet, planet)
  /\ ViewRendered
  /\ op' = "quickSelect"
  /\ UNCHANGED otherVars
  /\ UNCHANGED simIntervals
  /\ UNCHANGED simVars
  /\ UNCHANGED <<mounted, simInterval, zoom, viewBox, scale, savedScale>>
  /\ UNCHANGED panelVars

\* The close button of the planet info panel: setSelectedPlanet(null)
CloseInfo ==
  /\ mounted
  /\ selectedPlanet # "null"
  /\ selectedPlanet' = "null"
  /\ ViewRendered
  /\ op' = "closeInfo"
  /\ UNCHANGED otherVars
  /\ UNCHANGED simIntervals
  /\ UNCHANGED simVars
  /\ UNCHANGED <<mounted, simInterval, zoom, viewBox, request, scale,
                 savedScale>>
  /\ UNCHANGED panelVars

\* onUpdate of the pinch gesture:
\* scale.value = Math.min(Math.max(savedScale.value * e.scale, 0.5), 3)
PinchUpdate(g) ==
  /\ mounted
  /\ scale' = Clamp(500, 3000, (savedScale * g) \div 10)
  /\ op' = "pinchUpdate"
  /\ UNCHANGED otherVars
  /\ UNCHANGED <<memoVars, countVars>>
  /\ UNCHANGED timerVars
  /\ UNCHANGED simVars
  /\ UNCHANGED <<mounted, simInterval, zoom, selectedPlanet, viewBox,
                 request, savedScale>>
  /\ UNCHANGED panelVars

\* onEnd of the pinch gesture: savedScale.value = scale.value
PinchEnd ==
  /\ mounted
  /\ savedScale' = scale
  /\ op' = "pinchEnd"
  /\ UNCHANGED otherVars
  /\ UNCHANGED <<memoVars, countVars>>
  /\ UNCHANGED timerVars
  /\ UNCHANGED simVars
  /\ UNCHANGED <<mounted, simInterval, zoom, selectedPlanet, viewBox,
                 request, scale>>
  /\ UNCHANGED panelVars

\* The controls of the view with the animation loop; the timer stays idle.
NextControls ==
  \/ SimTick(MaxCtlTicks)
  \/ TogglePause
  \/ \E req \in SpeedRequests : SetSpeed(req)
  \/ \E req \in ZoomRequests : SetZoom(req)
  \/ \E planet \in PLANETS : PressPlanet(planet)
  \/ \E planet \in PLANETS : QuickSelect(planet)
  \/ CloseInfo
  \/ \E d \in PausedWaits : Wait(d)

SpecControls == InitDefault /\ [][NextControls]_vars

\* The zoom of the slider view and the scale of the pinch view.
NextZoom ==
  \/ \E req \in ZoomRequests : SetZoom(req)
  \/ \E g \in PinchScales : PinchUpdate(g)
  \/ PinchEnd

SpecZoom == InitDefault /\ [][NextZoom]_vars

\* ------------------------------------------------------------- teardown
\* The cleanups React runs at the unmount: clearInterval of the animation
\* interval, clearInterval of the countdown interval.  Result: is the
\* interval still live.
AnimationCleanupLeaks(live) == live
AnimationCleanup(live) == FALSE
TickCleanup(live) == FALSE

\* The view is unmounted (navigating away); the timer in it goes with it.
Unmount ==
  /\ mounted
  /\ mounted' = FALSE
  /\ simInterval' = AnimationCleanup(simInterval)
  /\ intervalRef' = TickCleanup(intervalRef)
  /\ pomAge' = IF intervalRef' THEN pomAge ELSE 0
  /\ op' = "unmount"
  /\ UNCHANGED otherVars
  /\ pomIntervals' = Cleared(pomIntervals, intervalRef)
  /\ simIntervals' = Cleared(simIntervals, simInterval)
  /\ UNCHANGED memoVars
  /\ UNCHANGED <<variant, workDuration, breakDuration, sessionType,
                 timerState, timeRemaining, sinceTick, nextWork, nextBreak,
                 curWork, curBreak, completions, ticks, ranSince, pausedWait>>
  /\ UNCHANGED simVars
  /\ UNCHANGED ctlVars
  /\ UNCHANGED panelVars

\* The view and its timer up to the unmount and after it.
NextTeardown ==
  \/ StartTimer
  \/ PauseTimer
  \/ \E late \in Lates : PomTick(late)
  \/ SimTick(MaxViewTicks)
  \/ TogglePause
  \/ Unmount
  \/ \E d \in Waits : Wait(d)

SpecTeardown == InitDefault /\ [][NextTeardown]_vars

\* ------------------------------------------------- what the view draws
\* The entries of the PLANETS array, in its order; size and speed in
\* 1/1000, distance as in the code.
PlanetNames == <<"Mercury", "Venus", "Earth", "Mars", "Jupiter", "Saturn",
                 "Uranus", "Neptune">>

PlanetData ==
  [Mercury |-> [size |-> 2400, distance |-> 58, speed |-> 4150],
   Venus |-> [size |-> 6000, distance |-> 108, speed |-> 1620],
   Earth |-> [size |-> 6400, distance |-> 150, speed |-> 1000],
   Mars |-> [size |-> 3400, distance |-> 228, speed |-> 530],
   Jupiter |-> [size |-> 35000, distance |-> 778, speed |-> 84],
   Saturn |-> [size |-> 29000, distance |-> 1427, speed |-> 34],
   Uranus |-> [size |-> 13000, distance |-> 2871, speed |-> 12],
   Neptune |-> [size |-> 12000, distance |-> 4497, speed |-> 6]]

\* const angle = time * planet.speed * 0.3, in 1/100000000 rad (time is in
\* 1/10000, planet.speed in 1/1000, 0.3 in tenths)
PlanetAngleTimesSpeed(planet) ==
  (time * PlanetData[planet].speed * 3 * speed) \div 10
PlanetAngle(planet) == time * PlanetData[planet].speed * 3

\* const displaySize = Math.max(planet.size * 0.35, 3) * (isSelected ? 1.2 : 1),
\* in 1/1000
DisplaySize(planet) ==
  LET scaled == (PlanetData[planet].size * 35) \div 100
      shown == IF scaled > 3000 THEN scaled ELSE 3000
  IN IF selectedPlanet = planet THEN (shown * 12) \div 10 ELSE shown

\* Earth's moon is drawn at Earth's position plus
\* (cos(time * 13), sin(time * 13)) * (displaySize + 6): the angle of that
\* offset in 1/10000 rad and its length in 1/1000.
MoonAngle == time * 13
MoonDistance == DisplaySize("Earth") + 6000

\* const angle = asteroid.angle + time * asteroid.speed of asteroid k of
\* the belt, in 1/100000000 rad
AsteroidAngle(k) == asteroids[k].angle + time * asteroids[k].speed

\* the distances the view gives to scaleDistance: planet.distance of the
\* eight planets and 400 for the asteroid belt
ProgramDistances ==
  {PlanetData[PlanetNames[i]].distance : i \in 1..Len(PlanetNames)} \cup {400}

\* scaleDistance(d), for one of the view's distances or the integer after
\* the distance scaled last
ScaleDistanceCall(d) ==
  /\ d = distance + 1 \/ d \in ProgramDistances
  /\ distance' = d
  /\ orbitRadius' = scaleDistance(d)
  /\ op' = "scaleDistance"
  /\ UNCHANGED <<viewVars, watchVars>>

\* The view after the mount, with scaleDistance given 0 or one of the
\* view's distances.
InitDistance ==
  /\ variant = "loop"
  /\ panel = "native"
  /\ workDuration = DEFAULT_SETTINGS(panel).workDuration
  /\ breakDuration = DEFAULT_SETTINGS(panel).breakDuration
  /\ TimerInit
  /\ ControlsInit
  /\ PanelInit
  /\ store = Absent
  /\ loaded = TRUE
  /\ FieldInit(DefaultSeed)
  /\ \E d \in {0} \cup ProgramDistances : ScaleInit(d)
  /\ WatchInit

\* scaleDistance over the integers 0..MaxDistance and the view's distances
NextDistance ==
  \E d \in (0..MaxDistance) \cup ProgramDistances : ScaleDistanceCall(d)

SpecDistance == InitDistance /\ [][NextDistance]_vars

\* inputs of the controls while the generated fields are followed
FieldSpeedRequests == {5, 9990}
FieldZoomRequests == {3, 31}
FieldPlanets == {"Earth", "Saturn"}

\* The view after the mount with an empty preference store and the fields
\* of any seed.
InitField ==
  /\ variant \in Variants
  /\ panel = "native"
  /\ workDuration = DEFAULT_SETTINGS(panel).workDuration
  /\ breakDuration = DEFAULT_SETTINGS(panel).breakDuration
  /\ TimerInit
  /\ ControlsInit
  /\ PanelInit
  /\ store = Absent
  /\ loaded = TRUE
  /\ \E seed \in Seeds : FieldInit(seed)
  /\ ScaleInit(0)
  /\ WatchInit

\* The generated fields under the animation loop, the controls and a
\* change of the settings; the timer stays idle.
NextField ==
  \/ SimTick(MaxCtlTicks)
  \/ TogglePause
  \/ \E req \in FieldSpeedRequests : SetSpeed(req)
  \/ \E req \in FieldZoomRequests : SetZoom(req)
  \/ \E planet \in FieldPlanets : PressPlanet(planet)
  \/ \E w \in Durations : SaveSettings(w, breakDuration)

SpecField == InitField /\ [][NextField]_vars

\* ------------------------------------------------- the Moonwatch stopwatch
\* Is the stopwatch interval live?  The effect sets it when isRunning and
\* its cleanup clears it when isRunning changes.
StopwatchEffectAlways(running) == TRUE
StopwatchEffect(running) == running

\* [stopwatchTime, ...prev].slice(0, 5)
LapsUnsliced(t, prev) == <<t>> \o prev
Laps(t, prev) ==
  LET all == <<t>> \o prev
  IN SubSeq(all, 1, IF Len(all) < 5 THEN Len(all) ELSE 5)

\* handleStartStop of the Moonwatch: setIsRunning(!isRunning)
MoonwatchHandleStartStop ==
  /\ isRunning' = ~isRunning
  /\ op' = "startStop"
  /\ UNCHANGED <<stopwatchTime, lapTimes>>
  /\ UNCHANGED <<viewVars, distance, orbitRadius>>

\* The callback of the stopwatch interval: setStopwatchTime(prev => prev + 10)
StopwatchTick ==
  /\ StopwatchEffect(isRunning)
  /\ stopwatchTime < MaxWatchTicks * 10
  /\ stopwatchTime' = stopwatchTime + 10
  /\ op' = "stopwatchTick"
  /\ UNCHANGED <<isRunning, lapTimes>>
  /\ UNCHANGED <<viewVars, distance, orbitRadius>>

\* handleReset of the Moonwatch (the RESET / LAP button)
MoonwatchHandleReset ==
  /\ IF ~isRunning
       THEN /\ stopwatchTime' = 0
            /\ lapTimes' = <<>>
       ELSE /\ lapTimes' = Laps(stopwatchTime, lapTimes)
            /\ UNCHANGED stopwatchTime
  /\ op' = "watchReset"
  /\ UNCHANGED isRunning
  /\ UNCHANGED <<viewVars, distance, orbitRadius>>

\* The stopwatch of the Moonwatch, apart from the solar system view.
NextWatch ==
  \/ MoonwatchHandleStartStop
  \/ StopwatchTick
  \/ MoonwatchHandleReset

SpecWatch == InitDefault /\ [][NextWatch]_vars

TypeOK ==
  /\ variant \in Variants
  /\ workDuration \in Durations
  /\ breakDuration \in Durations
  /\ timerState \in TimerStates
  /\ sessionType \in SessionTypes
  /\ timeRemaining \in Int
  /\ intervalRef \in BOOLEAN
  /\ intervalRef = (timerState = "running")
  /\ pomAge \in 0..PomPeriod
  /\ sinceTick \in Nat
  /\ ranSince \in Nat
  /\ {nextWork, nextBreak, curWork, curBreak} \subseteq Durations
  /\ completions \in 0..MaxTicks
  /\ ticks \in 0..MaxTicks
  /\ simTicks \in 0..MaxViewTicks
  /\ time = simTicks * TimeStep * speed
  /\ speed = InitSpeed
  /\ isPaused \in BOOLEAN
  /\ pausedWait \in BOOLEAN
  /\ mounted
  /\ simInterval = ~isPaused
  /\ zoom = InitZoom
  /\ viewBox = ViewBox(zoom)
  /\ selectedPlanet = "null"
  /\ scale = InitScale
  /\ savedScale = InitScale
  /\ panel \in Panels
  /\ store = Stringify(Settings(workDuration, breakDuration, prefs))
  /\ loaded

\* A countdown tick that ended a session (a session boundary).
Boundary == op' = "tick" /\ sessionType' # sessionType

\* The configured duration, in minutes, of a session of type st.
Configured(st) == IF st = "work" THEN workDuration ELSE breakDuration

\* ------------------------------------------------------------------ C1
\* C1: continuous loop.  A countdown tick that ends a break session makes
\* sessionType work, sets timeRemaining to the configured work duration
\* x 60 s and leaves timerState running; the timer leaves running only
\* through pause or reset.
C1_ContinuousLoop ==
  [][/\ (Boundary /\ sessionType = "break") =>
          /\ sessionType' = "work"
          /\ timeRemaining' = FullTime(workDuration)
          /\ timerState' = "running"
     /\ (timerState = "running" /\ timerState' # "running") =>
          op' \in {"pause", "reset"}]_vars

\* ------------------------------------------------------------------ C2
\* C2: a countdown tick in a running work session either leaves a positive
\* timeRemaining in the work session, or (timeRemaining reached <= 0) it
\* sets sessionType to break and timeRemaining to exactly the configured
\* break duration x 60 s, with timerState still running; no state keeps a
\* work session with timeRemaining <= 0.
C2_WorkToBreak ==
  /\ [][(op' = "tick" /\ sessionType = "work") =>
          \/ /\ sessionType' = "work"
             /\ timeRemaining' > 0
             /\ timeRemaining' < timeRemaining
          \/ /\ sessionType' = "break"
             /\ timeRemaining' = FullTime(breakDuration)
             /\ timerState' = "running"]_vars
  /\ [](sessionType = "work" => timeRemaining > 0)

\* A work session of one minute ended by a late tick after an on-time
\* tick: the break starts with its full duration.
C2_Witness ==
  /\ op = "tick"
  /\ sessionType = "break"
  /\ timerState = "running"
  /\ ticks = 2
  /\ completions = 1
  /\ workDuration = 1
  /\ breakDuration = 2
  /\ timeRemaining = FullTime(2)

\* ------------------------------------------------------------------ C3
\* C3: onComplete is called exactly once by every session boundary and by
\* nothing else: a step adds one to the number of calls when it is a tick
\* that flips sessionType, and leaves the number unchanged otherwise.
C3_OnCompleteOncePerBoundary ==
  [][completions' = completions + (IF Boundary THEN 1 ELSE 0)]_vars

\* Two boundaries (work -> break -> work) and two calls.
C3_Witness ==
  /\ completions = 2
  /\ sessionType = "work"
  /\ op = "tick"


C5_CountdownIndependent ==
  timerState = "running" => ranSince <= PomPeriod

\* ------------------------------------------------------------------ C6
\* C6: right after reset the timer is idle in a work session with
\* timeRemaining = configured work duration x 60 s and no live interval;
\* while idle no countdown tick happens and timeRemaining changes only by
\* a reset or a settings save.
C6_Reset ==
  /\ [](op = "reset" =>
          /\ timerState = "idle"
          /\ sessionType = "work"
          /\ timeRemaining = FullTime(workDuration)
          /\ ~intervalRef)
  /\ [][timerState = "idle" =>
          /\ op' # "tick"
          /\ (timeRemaining' # timeRemaining => op' \in {"reset", "save"})]_vars

\* A reset after the first session boundary, with the work duration at two
\* minutes.
C6_Witness ==
  /\ op = "reset"
  /\ completions = 1
  /\ workDuration = 2
  /\ timeRemaining = FullTime(2)

\* ------------------------------------------------------------------ C7
\* C7 (the component with current-duration fields, src/unnamed/part_003):
\* timerState is never 'completed'; it changes only by start (idle or
\* paused to running), pause (running to paused) and reset (to idle); a
\* start from idle copies the configured durations into the current
\* duration refs, a start from paused leaves them alone, and no start
\* changes timeRemaining.
C7_TimerStateMachine ==
  /\ [](timerState \in {"idle", "running", "paused"})
  /\ [][variant = "loop" =>
          /\ (timerState' # timerState) =>
               \/ /\ op' = "start"
                  /\ timerState \in {"idle", "paused"}
                  /\ timerState' = "running"
               \/ /\ op' = "pause"
                  /\ timerState = "running"
                  /\ timerState' = "paused"
               \/ /\ op' = "reset"
                  /\ timerState' = "idle"
          /\ (op' = "start") =>
               /\ timerState' = "running"
               /\ timeRemaining' = timeRemaining
               /\ IF timerState = "idle"
                    THEN curWork' = workDuration /\ curBreak' = breakDuration
                    ELSE curWork' = curWork /\ curBreak' = curBreak]_vars

\* A resume from paused after the work duration was changed: the current
\* work duration ref still holds the old value.
C7_Witness ==
  /\ variant = "loop"
  /\ op = "start"
  /\ ticks >= 1
  /\ curWork # workDuration

\* ------------------------------------------------------------------ C8
\* C8: while the timer is running, the time measured against lastTickRef
\* is the real time it has been running since the last tick or start (so
\* time spent paused is not in it); a tick that does not end the session
\* subtracts that time plus the time until the callback ran; a tick only
\* happens while running; timeRemaining is changed by nothing but a tick,
\* a reset or a settings save while idle.
C8_TickSubtractsRunningTime ==
  /\ [](timerState = "running" => sinceTick = ranSince)
  /\ [][/\ op' = "tick" => timerState = "running"
        /\ (op' = "tick" /\ sessionType' = sessionType) =>
             (timeRemaining - timeRemaining')
               - (ranSince + (PomPeriod - pomAge)) \in Lates
        /\ (timeRemaining' # timeRemaining) => op' \in {"tick", "reset", "save"}
        /\ (timeRemaining' # timeRemaining /\ op' = "save") =>
             timerState = "idle"]_vars

\* Two on-time ticks around a pause during which real time passed: only
\* the two countdown periods were subtracted.
C8_Witness ==
  /\ pausedWait
  /\ op = "tick"
  /\ timerState = "running"
  /\ ticks = 2
  /\ completions = 0
  /\ curWork = workDuration
  /\ timeRemaining = FullTime(workDuration) - 2 * PomPeriod

\* ------------------------------------------------------------------ C9
\* C9: a settings save while the timer is idle sets timeRemaining to the
\* new duration x 60 s of the displayed session type.
C9_IdleDurationChange ==
  [][(op' = "save" /\ timerState = "idle") =>
       timeRemaining' =
         FullTime(IF sessionType = "work" THEN workDuration'
                                          ELSE breakDuration')]_vars

\* Idle, with a work duration that differs from the one in use before.
C9_Witness ==
  /\ op = "save"
  /\ timerState = "idle"
  /\ workDuration # curWork
  /\ timeRemaining = FullTime(workDuration)

C11_EffectiveDurationsInRange ==
  /\ workDuration \in 1..60
  /\ breakDuration \in 1..30

\* ----------------------------------------------------------------- C12
\* The duration the claim expects for a field text: the parsed integer
\* clamped to 1..hi, and 1 when the text is not a number or parses to 0.
C12_Validated(text, hi) ==
  LET parsed == ParseInt(text)
      n == IF parsed = <<>> THEN 1 ELSE IF parsed[1] = 0 THEN 1 ELSE parsed[1]
  IN IF n < 1 THEN 1 ELSE IF n > hi THEN hi ELSE n

\* C12: Save never accepts an unvalidated duration.  Whatever the duration
\* fields hold when Save is pressed, the saved workDuration (effective and
\* stored) is the field's parsed integer clamped to 1..60 and the saved
\* breakDuration is the field's parsed integer clamped to 1..30, with 1
\* for a text that is not a number or parses to 0.
C12_SaveValidates ==
  [][op' = "save" =>
       /\ workDuration' = C12_Validated(WorkField, 60)
       /\ breakDuration' = C12_Validated(BreakField, 30)
       /\ store'.kind = "json"
       /\ store'.value.workDuration = workDuration'
       /\ store'.value.breakDuration = breakDuration']_vars

\* ----------------------------------------------------------------- C13
\* C13: while the preference store holds no settings, or a text that does
\* not parse, the effective settings are the defaults (work 25, break 5,
\* showOrbits true, starDensity 100, background music off) and the view
\* is still mounted with its animation and its timer intact: the failed
\* load is not fatal.
C13_DefaultsWhenNothingLoaded ==
  store.kind \in {"absent", "unparsable"} =>
    /\ workDuration = 25
    /\ breakDuration = 5
    /\ prefs.showOrbits = TRUE
    /\ prefs.starDensity = 100
    /\ ~MusicEnabled(prefs)
    /\ mounted
    /\ simInterval
    /\ timeRemaining = FullTime(25)

\* The load effect has run on a stored text that does not parse, and the
\* panel was opened afterwards.
C13_Witness ==
  /\ store = Unparsable
  /\ loaded
  /\ settingsPanelVisible
  /\ workDuration = 25

\* ----------------------------------------------------------------- C14
\* C14: simulation time never decreases and changes only by a simulation
\* tick taken while the simulation is not paused; real time passing while
\* paused, togglePause, setSpeed, setZoom and the selection of a planet
\* leave it unchanged.
C14_TimeFrozenWhilePaused ==
  [][/\ time' >= time
     /\ (time' # time) => (op' = "simTick" /\ ~isPaused)
     /\ (op' \in {"wait", "togglePause", "setSpeed", "setZoom",
                  "pressPlanet", "quickSelect", "closeInfo"}) =>
          time' = time]_vars

\* Two simulation ticks, then pause, then 30 s of real time.
C14_Witness ==
  /\ op = "wait"
  /\ isPaused
  /\ simTicks = 2
  /\ time > 0

\* ----------------------------------------------------------------- C15
\* C15: a simulation tick adds (real time since the previous tick) x speed
\* to the simulation time: with the tick 16 ms after the previous one, 0.016
\* x speed (time is in 1/10000, speed in tenths, real time in ms).
C15_TimeFollowsRealTime ==
  [][op' = "simTick" =>
       time' - time = (sinceTick' - sinceTick) * speed]_vars

C17_ZoomClamped ==
  /\ [](/\ scale \in 500..3000
        /\ savedScale \in 500..3000
        /\ zoom \in 3..30
        /\ zoom # 0)
  /\ [][op' = "setZoom" =>
          /\ zoom' = IF request' < 3 THEN 3
                     ELSE IF request' > 30 THEN 30
                     ELSE request'
          /\ (request' = zoom) => (zoom' = zoom /\ viewBox' = viewBox)]_vars

\* A pinch outwards after a gesture that ended at the upper bound, with the
\* slider of the other view at its lower bound.
C17_Witness ==
  /\ op = "pinchUpdate"
  /\ savedScale = 3000
  /\ scale = 3000
  /\ zoom = 3
  /\ request = 0

\* ----------------------------------------------------------------- C18
\* C18: in every reachable state the view box is the square
\* (-500/z, -500/z, 1000/z, 1000/z) for the current zoom z: centred on the
\* origin, and a function of z alone (500/z rounded down to 1/1000).
C18_ViewBox ==
  LET size == 0 - viewBox[1]
  IN /\ viewBox[2] = viewBox[1]
     /\ viewBox[3] = 2 * size
     /\ viewBox[4] = 2 * size
     /\ size * zoom <= 500 * 1000 * 10
     /\ (size + 1) * zoom > 500 * 1000 * 10

\* Zoomed in to 3 with a planet selected, at speed 0.5, after two
\* simulation ticks.
C18_Witness ==
  /\ zoom = 30
  /\ viewBox = <<0 - 166666, 0 - 166666, 333332, 333332>>
  /\ selectedPlanet = "Saturn"
  /\ speed = 5
  /\ simTicks = 2

\* ----------------------------------------------------------------- C19
\* C19: a press on a planet, on the orbit or in the quick select bar,
\* clears the selection when that planet is the selected one and selects
\* that planet otherwise; at most one planet is selected.
C19_SelectionToggle ==
  /\ [](selectedPlanet \in PLANETS \cup {"null"})
  /\ [][op' \in {"pressPlanet", "quickSelect"} =>
          selectedPlanet' = IF selectedPlanet = request' THEN "null"
                                                         ELSE request']_vars

\* The selected planet was pressed again in the quick select bar.
C19_Witness ==
  /\ op = "quickSelect"
  /\ request = "Earth"
  /\ selectedPlanet = "null"

\* ----------------------------------------------------------------- C20
\* C20: after the unmount no simulation tick and no countdown tick happens,
\* neither interval is live, and simulation time and timeRemaining keep
\* their last values.
C20_TeardownStopsTicks ==
  /\ [](~mounted => (~simInterval /\ ~intervalRef))
  /\ [][~mounted =>
          /\ op' \notin {"tick", "simTick"}
          /\ time' = time
          /\ simTicks' = simTicks
          /\ timeRemaining' = timeRemaining
          /\ ticks' = ticks]_vars

\* Real time passes after the unmount of a view whose animation had ticked
\* and whose timer was running and had ticked.
C20_Witness ==
  /\ ~mounted
  /\ op = "wait"
  /\ timerState = "running"
  /\ ticks >= 1
  /\ simTicks >= 1

\* ----------------------------------------------------------------- C21
\* C21: the orbital angle of every planet b is simulationTime x b.speed x
\* 0.3: zero at time zero, it advances by (t2 - t1) x b.speed x 0.3 over
\* every step from time t1 to time t2, and a step that leaves the time
\* alone (pause, speed, zoom, selection) leaves the angle alone.
C21_AngleLinear ==
  /\ [](\A b \in PLANETS :
          /\ PlanetAngle(b) = time * PlanetData[b].speed * 3
          /\ (time = 0 => PlanetAngle(b) = 0))
  /\ [][\A b \in PLANETS :
          /\ PlanetAngle(b)' - PlanetAngle(b)
               = (time' - time) * PlanetData[b].speed * 3
          /\ (time' = time => PlanetAngle(b)' = PlanetAngle(b))]_vars

\* Two simulation ticks, one at speed 1 and one at speed 0.5, then zoomed
\* in with Earth selected: simulation time 0.012, Mercury at 0.01494 rad.
C21_Witness ==
  /\ simTicks = 2
  /\ speed = 5
  /\ time = 120
  /\ zoom = 30
  /\ selectedPlanet = "Earth"
  /\ PlanetAngle("Mercury") = 1494000

\* ----------------------------------------------------------------- C22
\* C22: the asteroid field and the star field are generated once: no step
\* (tick, pause toggle, speed, zoom, selection, settings change) changes an
\* asteroid's base angle, distance, speed, size or opacity or a star, and
\* an asteroid's drawn angle is its base angle plus simulationTime x its
\* speed, so that only the time term changes it.
C22_FieldsGeneratedOnce ==
  /\ [](\A k \in 1..NumAsteroids :
          AsteroidAngle(k) - asteroids[k].angle = time * asteroids[k].speed)
  /\ [][/\ asteroids' = asteroids
        /\ stars' = stars
        /\ \A k \in 1..NumAsteroids :
             AsteroidAngle(k)' - AsteroidAngle(k)
               = (time' - time) * asteroids[k].speed]_vars

\* The fields of the second seed after two ticks, a pause, a speed and a
\* zoom change, a selection and a change of the work duration.
C22_Witness ==
  /\ simTicks = 2
  /\ isPaused
  /\ speed = 5
  /\ zoom = 30
  /\ selectedPlanet = "Saturn"
  /\ workDuration = 2
  /\ AsteroidAngle(1) > asteroids[1].angle
  /\ stars = GenerateStars(456)
  /\ asteroids = GenerateAsteroids(456)

\* ----------------------------------------------------------------- C23
\* C23: scaleDistance(0) is 35; scaleDistance of a larger distance is
\* larger and of the same distance the same; and the scaled orbit radii of
\* the eight planets increase strictly in the order of the PLANETS array.
C23_DistanceScaleIncreasing ==
  /\ [](distance = 0 => orbitRadius = 35000)
  /\ [][/\ (distance' > distance => orbitRadius' > orbitRadius)
        /\ (distance' = distance => orbitRadius' = orbitRadius)
        /\ \A i, j \in 1..Len(PlanetNames) :
             (/\ i < j
              /\ distance = PlanetData[PlanetNames[i]].distance
              /\ distance' = PlanetData[PlanetNames[j]].distance)
               => orbitRadius' > orbitRadius]_vars

\* scaleDistance of Neptune's distance: 189.126.
C23_Witness ==
  /\ op = "scaleDistance"
  /\ distance = PlanetData["Neptune"].distance
  /\ orbitRadius = 189126

\* ----------------------------------------------------------------- C24
\* C24: in every reachable state the Moon is drawn at Earth's position
\* plus an offset of angle simulationTime x 13 (Earth's speed is not a
\* factor) and of one constant length (9, Earth's unselected display size
\* plus 6), whatever the selection, the zoom and the speed.
C24_MoonOrbit ==
  /\ MoonAngle = time * 13
  /\ MoonDistance = 9000

\* ----------------------------------------------------------------- C25
\* C25: right after a Save the view draws the orbit paths exactly when the
\* saved showOrbits preference is true.
C25_ShowOrbitsRead ==
  op = "save" => (OrbitsDrawn <=> prefs.showOrbits)

\* ----------------------------------------------------------------- C26
\* C26: whenever timerState is idle, sessionType is work and timeRemaining
\* is the configured work duration x 60 s: the timer is never idle in a
\* break session and never idle with a partly elapsed countdown.
C26_IdleIsFullWork ==
  timerState = "idle" =>
    /\ sessionType = "work"
    /\ timeRemaining = FullTime(workDuration)

\* Idle again after a reset in a break session that had partly elapsed
\* and had been paused for a while.
C26_Witness ==
  /\ timerState = "idle"
  /\ op = "reset"
  /\ completions = 1
  /\ ticks = 2
  /\ pausedWait
  /\ sessionType = "work"
  /\ timeRemaining = FullTime(workDuration)

\* ----------------------------------------------------------------- C27
\* C27: a Save pressed right after the panel was opened, with no field
\* edited in between, leaves the effective settings unchanged and leaves
\* the stored settings unchanged (an empty or unreadable store may receive
\* the effective settings), also when the effective settings were loaded
\* from the store after the panel was first created.
C27_SaveWithoutEditing ==
  [][(op = "open" /\ op' = "save") =>
       /\ workDuration' = workDuration
       /\ breakDuration' = breakDuration
       /\ prefs' = prefs
       /\ \/ store' = store
          \/ /\ ~Loadable(store)
             /\ store' =
                  Stringify(Settings(workDuration, breakDuration, prefs))]_vars

\* ----------------------------------------------------------------- C28
\* C28: the effective settings (the two durations and the other
\* preferences) change only in a Save or in the load of the mount, and the
\* store changes only in a Save; right after a Save the store holds exactly
\* the effective settings; typing into a field, the toggles of the panel,
\* 'Reset to Default', opening and closing the panel change neither the
\* effective settings nor the store.
C28_Effective == Settings(workDuration, breakDuration, prefs)

C29_AtMostOneInterval ==
  /\ pomIntervals \in {0, 1}
  /\ timerState \in {"idle", "paused"} => pomIntervals = 0
  /\ simIntervals \in {0, 1}
  /\ isPaused => simIntervals = 0

\* The countdown runs on one interval after a pause and a resume, a
\* session boundary and a Save that changed the durations, with the
\* animation on its one interval after a pause and a resume of its own.
C29_Witness ==
  /\ timerState = "running"
  /\ pomIntervals = 1
  /\ pausedWait
  /\ completions >= 1
  /\ op = "save"
  /\ workDuration # curWork
  /\ ~isPaused
  /\ simIntervals = 1

\* ----------------------------------------------------------------- C30
\* C30: in the Moonwatch stopwatch, stopwatchTime changes only by a tick
\* of +10 ms while isRunning, or to 0 by the reset button while stopped;
\* the button while stopped also clears the laps, and while running it
\* puts the current stopwatchTime in front of the laps without changing
\* stopwatchTime; the laps change in no other way, never number more than
\* 5 and are ordered newest (largest) first.
C30_Stopwatch ==
  /\ [](/\ Len(lapTimes) <= 5
        /\ \A i \in 1..Len(lapTimes) :
             /\ lapTimes[i] <= stopwatchTime
             /\ i > 1 => lapTimes[i] <= lapTimes[i - 1])
  /\ [][/\ stopwatchTime' # stopwatchTime =>
            \/ /\ isRunning
               /\ op' = "stopwatchTick"
               /\ stopwatchTime' = stopwatchTime + 10
            \/ /\ ~isRunning
               /\ op' = "watchReset"
               /\ stopwatchTime' = 0
        /\ lapTimes' # lapTimes => op' = "watchReset"
        /\ (op' = "watchReset" /\ ~isRunning) =>
             /\ stopwatchTime' = 0
             /\ lapTimes' = <<>>
        /\ (op' = "watchReset" /\ isRunning) =>
             /\ stopwatchTime' = stopwatchTime
             /\ lapTimes' # <<>>
             /\ Head(lapTimes') = stopwatchTime
             /\ \A i \in 2..Len(lapTimes') : lapTimes'[i] = lapTimes[i - 1]
             /\ Len(lapTimes') = IF Len(lapTimes) < 5 THEN Len(lapTimes) + 1
                                                     ELSE 5]_vars

\* A lap was just taken at 60 ms while running and the list is full, with
\* laps of five different ticks in it, newest first.
C30_Witness ==
  /\ op = "watchReset"
  /\ isRunning
  /\ stopwatchTime = 60
  /\ lapTimes = <<60, 50, 40, 30, 20>>

====
